---- MODULE Spec2Model ----
(***************************************************************************)
(* Model of app.py, the OSUIT course credit hour adjustment tool.          *)
(*                                                                         *)
(* app.py is a Streamlit script: every user interaction re-executes the    *)
(* whole script from top to bottom with the widget state of the session.   *)
(* One action of the model is one such execution: read the spreadsheet,    *)
(* prepare the columns, apply the two filters, run the per-course loop     *)
(* and offer (or not) the export.                                          *)
(*                                                                         *)
(* Representation.  A spreadsheet cell is a sequence: << >> is a missing   *)
(* cell (NaN), <<v>> a cell holding v.  A course code is a sequence of     *)
(* one-character strings, so that the regular expression of line 25 is     *)
(* computed character by character.  A DataFrame is a sequence of          *)
(* [idx, row] entries: idx is the index label (0, 1, ...) and row maps     *)
(* column names to values.                                                 *)
(***************************************************************************)
EXTENDS Integers, Sequences, FiniteSets, TLC

VARIABLES
    file,             \* processed_courses.xlsx: [columns, rows]
    pc,               \* "start" | "ready" | "KeyError"
    df,               \* the prepared DataFrame (lines 17-25)
    schoolPick,       \* option picked in the school selectbox: << >> is the "Show All" entry, <<s>> the entry of school s
    subjectPick,      \* option picked in the subject selectbox, likewise
    school,           \* label returned by the school selectbox (line 56)
    subject,          \* label returned by the subject selectbox (line 64)
    subject_options,  \* line 63
    session,          \* number_input widget state, by widget key
    filtered,         \* the filtered view (lines 58-67)
    shown,            \* per course in view: banner and metrics (lines 106-118)
    updated_rows,     \* lines 72, 122-135
    download,         \* << >> or <<table>>: the file behind the download link
    info              \* << >> or <<message>>: st.info of line 151

vars == <<file, pc, df, schoolPick, subjectPick, school, subject,
          subject_options, session, filtered, shown, updated_rows, download, info>>

(***************************************************************************)
(* Bounds                                                                  *)
(***************************************************************************)
MaxCourses == 2
MaxAssigned == 2
MaxSplit == 3
MaxTotal == 3
MaxLoadRows == 2
MaxCodeLen == 2

(***************************************************************************)
(* Constants of the script                                                 *)
(***************************************************************************)
MINUTES == [Theory |-> 800, Lab |-> 1600, Internship |-> 2475, Clinical |-> 2400]

ShowAllLabel == "Show All"

\* "Show All" as a selectbox label of the subject selectbox
ShowAllChars == <<"S", "h", "o", "w", " ", "A", "l", "l">>

UNKNOWN == <<"U", "N", "K", "N", "O", "W", "N">>

UpperCase == {"A", "B", "C", "D", "E", "F", "G", "H", "I", "J", "K", "L", "M",
              "N", "O", "P", "Q", "R", "S", "T", "U", "V", "W", "X", "Y", "Z"}

\* the columns of the loop of line 20
IntColumns == {"TheoryCredits", "LabCredits", "InternshipCredits",
               "ClinicalCredits", "CurrentSeatTime"}

CreditColumns == {"TheoryCredits", "LabCredits", "InternshipCredits", "ClinicalCredits"}

\* columns the script indexes with df[...] or row[...]
BaseColumns == {"CourseCode", "CourseName", "School", "TotalCredits", "CurrentSeatTime"}

AllColumns == BaseColumns \cup CreditColumns \cup {"SubjectCode"}

InputNames == {"theory", "lab", "intern", "clinical"}

ExportColumns == <<"CourseCode", "CourseName", "School", "SubjectCode", "TotalCredits",
                   "TheoryCredits", "LabCredits", "InternshipCredits", "ClinicalCredits",
                   "OriginalSeatTime", "NewSeatTime", "SeatTimeDifference">>

(***************************************************************************)
(* Load and prepare data (lines 17-25)                                     *)
(***************************************************************************)
Range(s) == {s[i] : i \in 1..Len(s)}

\* Series.fillna(d)
fillna(cell, d) == IF cell = << >> THEN d ELSE cell[1]

\* the greedy match of [A-Z]+ anchored at the start of s: its length
RECURSIVE UpperRun(_, _)
UpperRun(s, n) ==
    IF n < Len(s) /\ s[n + 1] \in UpperCase THEN UpperRun(s, n + 1) ELSE n

\* the expression without its anchor: the first run of [A-Z] anywhere in s
RECURSIVE FirstUpper(_, _)
FirstUpper(s, n) ==
    IF n < Len(s) /\ s[n + 1] \notin UpperCase THEN FirstUpper(s, n + 1) ELSE n

str_extract_unanchored(s) ==
    LET a == FirstUpper(s, 0)
        b == UpperRun(s, a)
    IN  IF b = a THEN << >> ELSE <<SubSeq(s, a + 1, b)>>

\* Series.str.extract(r'^([A-Z]+)', expand=False): the group, or a missing value
str_extract(s) ==
    LET n == UpperRun(s, 0)
    IN  IF n = 0 THEN << >> ELSE <<SubSeq(s, 1, n)>>

\* df[col] of lines 21-25 raises KeyError for a column the sheet does not have
LoadKeyError(f) ==
    \E col \in IntColumns \cup {"TotalCredits", "CourseCode"} : col \notin f.columns

PrepareRow(r) ==
    LET code == fillna(r["CourseCode"], << >>)
    IN  [col \in (DOMAIN r) \cup {"SubjectCode"} |->
            IF col \in IntColumns THEN fillna(r[col], 0)
            ELSE IF col = "TotalCredits" THEN fillna(r[col], 0)
            ELSE IF col = "CourseCode" THEN code
            ELSE IF col = "SubjectCode" THEN fillna(str_extract(code), UNKNOWN)
            ELSE r[col]]

\* read_excel gives the rows the index labels 0, 1, ...
LoadData(f) ==
    [i \in 1..Len(f.rows) |-> [idx |-> i - 1, row |-> PrepareRow(f.rows[i])]]

(***************************************************************************)
(* Filters (lines 55-69)                                                   *)
(***************************************************************************)
\* the schools offered by the selectbox of line 56 (the order of the list is not modelled)
SchoolOptions(d) ==
    {e.row["School"][1] : e \in {x \in Range(d) : x.row["School"] # << >>}}

SubjectOptions(d) == {e.row["SubjectCode"] : e \in Range(d)}

\* st.selectbox returns the label of the picked option
SelectLabel(pick, allLabel) == IF pick = << >> THEN allLabel ELSE pick[1]

FilterSchool(d, sch) ==
    LET keep(e) == e.row["School"] = <<sch>>
    IN  IF sch # ShowAllLabel THEN SelectSeq(d, keep) ELSE d

\* the subject filter losing its first match
FilterSubjectSkip(d, sub) ==
    LET keep(e) == e.row["SubjectCode"] = sub
        kept == SelectSeq(d, keep)
    IN  IF sub # ShowAllChars THEN (IF kept = << >> THEN kept ELSE Tail(kept)) ELSE d

FilterSubject(d, sub) ==
    LET keep(e) == e.row["SubjectCode"] = sub
    IN  IF sub # ShowAllChars THEN SelectSeq(d, keep) ELSE d

FilterCourses(d, sch, sub) == FilterSubject(FilterSchool(d, sch), sub)

(***************************************************************************)
(* Per-course loop (lines 74-135)                                          *)
(***************************************************************************)
\* a key that does not tell the courses apart
WidgetKeyShared(name, idx) == <<name, 0>>

\* key=f"theory_{idx}"
WidgetKey(name, idx) == <<name, idx>>

\* st.number_input(..., value=0, key=k): the session's value, or the default
number_input(state, k) == IF k \in DOMAIN state THEN state[k] ELSE 0

\* the magnitude of the change, without its sign
FormatUnsigned(x) == IF x >= 0 THEN <<"+", x>> ELSE <<"+", 0 - x>>

\* f"{int(x):+} min"
FormatSigned(x) == IF x >= 0 THEN <<"+", x>> ELSE <<"-", 0 - x>>

\* the validation with an inclusive first comparison
BannerInclusive(total_adjusted, original_credits) ==
    IF total_adjusted >= original_credits
        THEN [kind |-> "error", adjusted |-> total_adjusted, allowed |-> original_credits]
    ELSE IF total_adjusted < original_credits
        THEN [kind |-> "warning", adjusted |-> total_adjusted, allowed |-> original_credits]
    ELSE [kind |-> "success", adjusted |-> original_credits, allowed |-> original_credits]

Banner(total_adjusted, original_credits) ==
    IF total_adjusted > original_credits
        THEN [kind |-> "error", adjusted |-> total_adjusted, allowed |-> original_credits]
    ELSE IF total_adjusted < original_credits
        THEN [kind |-> "warning", adjusted |-> total_adjusted, allowed |-> original_credits]
    ELSE [kind |-> "success", adjusted |-> original_credits, allowed |-> original_credits]

\* the seat time with the internship and clinical rates exchanged
NewSeatTimeSwapped(theory, lab, intern, clinical) ==
    theory * MINUTES.Theory + lab * MINUTES.Lab +
    intern * MINUTES.Clinical + clinical * MINUTES.Internship

NewSeatTime(theory, lab, intern, clinical) ==
    theory * MINUTES.Theory + lab * MINUTES.Lab +
    intern * MINUTES.Internship + clinical * MINUTES.Clinical

\* one iteration of the loop of line 74
RenderCourse(e, state) ==
    LET idx == e.idx
        row == e.row
        theory == number_input(state, WidgetKey("theory", idx))
        lab == number_input(state, WidgetKey("lab", idx))
        intern == number_input(state, WidgetKey("intern", idx))
        clinical == number_input(state, WidgetKey("clinical", idx))
        total_adjusted == theory + lab + intern + clinical
        original_credits == row["TotalCredits"]
        original_seat_time == row["CurrentSeatTime"]
        new_seat_time == NewSeatTime(theory, lab, intern, clinical)
    IN  [shown |-> [idx |-> idx,
                    banner |-> Banner(total_adjusted, original_credits),
                    original |-> original_seat_time,
                    new |-> new_seat_time,
                    change |-> FormatSigned(new_seat_time - original_seat_time)],
         appended |-> [CourseCode |-> row["CourseCode"],
                       CourseName |-> row["CourseName"],
                       School |-> row["School"],
                       SubjectCode |-> row["SubjectCode"],
                       TotalCredits |-> original_credits,
                       TheoryCredits |-> theory,
                       LabCredits |-> lab,
                       InternshipCredits |-> intern,
                       ClinicalCredits |-> clinical,
                       OriginalSeatTime |-> original_seat_time,
                       NewSeatTime |-> new_seat_time,
                       SeatTimeDifference |-> new_seat_time - original_seat_time]]

\* the keys of the number inputs a run over view v creates
RenderedKeys(v) == {WidgetKey(name, e.idx) : name \in InputNames, e \in Range(v)}

\* a widget that a run does not create loses its state
KeepRendered(state, v) == [k \in RenderedKeys(v) |-> number_input(state, k)]

(***************************************************************************)
(* Export (lines 140-151)                                                  *)
(***************************************************************************)
\* an export that writes the file whatever the rows
ExportAlways(rows) ==
    [download |-> <<[columns |-> ExportColumns, rows |-> rows]>>, info |-> << >>]

\* an export that leaves out the courses whose split does not match their total
ExportMatching(rows) ==
    LET match(r) == r.TheoryCredits + r.LabCredits + r.InternshipCredits +
                    r.ClinicalCredits = r.TotalCredits
    IN  IF rows # << >>
            THEN [download |-> <<[columns |-> ExportColumns, rows |-> SelectSeq(rows, match)]>>,
                  info |-> << >>]
            ELSE [download |-> << >>, info |-> <<"No changes have been made yet.">>]

Export(rows) ==
    IF rows # << >>
        THEN [download |-> <<[columns |-> ExportColumns, rows |-> rows]>>, info |-> << >>]
        ELSE [download |-> << >>, info |-> <<"No changes have been made yet.">>]

(***************************************************************************)
(* One execution of the script, for a sheet that loads                     *)
(***************************************************************************)
\* prevOptions: the options of the subject selectbox in the previous run.  A
\* selectbox whose option list changed is a new widget and returns its first
\* option, "Show All".
Run(f, schPick, subPick, prevOptions, state) ==
    LET d == LoadData(f)
        sch == SelectLabel(schPick, ShowAllLabel)
        bySchool == FilterSchool(d, sch)
        options == SubjectOptions(bySchool)
        pick == IF options = prevOptions THEN subPick ELSE << >>
        sub == SelectLabel(pick, ShowAllChars)
        view == FilterSubject(bySchool, sub)
        out == [i \in 1..Len(view) |-> RenderCourse(view[i], state)]
        rows == [i \in 1..Len(view) |-> out[i].appended]
        exp == Export(rows)
    IN  [df |-> d, school |-> sch, subjectPick |-> pick, subject |-> sub,
         subject_options |-> options, filtered |-> view,
         shown |-> [i \in 1..Len(view) |-> out[i].shown],
         updated_rows |-> rows,
         session |-> KeepRendered(state, view),
         download |-> exp.download, info |-> exp.info]

Show(r) ==
    /\ df' = r.df
    /\ school' = r.school
    /\ subjectPick' = r.subjectPick
    /\ subject' = r.subject
    /\ subject_options' = r.subject_options
    /\ filtered' = r.filtered
    /\ shown' = r.shown
    /\ updated_rows' = r.updated_rows
    /\ session' = r.session
    /\ download' = r.download
    /\ info' = r.info

(***************************************************************************)
(* Actions: the first execution, and one execution per interaction         *)
(***************************************************************************)
Startup ==
    /\ pc = "start"
    /\ IF LoadKeyError(file)
          THEN /\ pc' = "KeyError"
               /\ UNCHANGED <<file, df, schoolPick, subjectPick, school, subject,
                              subject_options, session, filtered, shown,
                              updated_rows, download, info>>
          ELSE /\ pc' = "ready"
               /\ schoolPick' = << >>
               /\ \E r \in {Run(file, << >>, << >>, SubjectOptions(LoadData(file)), << >>)} : Show(r)
               /\ UNCHANGED file

SelectSchool ==
    /\ pc = "ready"
    /\ \E p \in {<< >>} \cup {<<s>> : s \in SchoolOptions(df)} :
          /\ p # schoolPick
          /\ schoolPick' = p
          /\ \E r \in {Run(file, p, subjectPick, subject_options, session)} : Show(r)
    /\ UNCHANGED <<file, pc>>

SelectSubject ==
    /\ pc = "ready"
    /\ \E p \in {<< >>} \cup {<<s>> : s \in subject_options} :
          /\ p # subjectPick
          /\ \E r \in {Run(file, schoolPick, p, subject_options, session)} : Show(r)
    /\ UNCHANGED <<file, pc, schoolPick>>

\* the credits assigned in all the number inputs of the session
RECURSIVE SumOver(_, _)
SumOver(state, keys) ==
    IF keys = {} THEN 0
    ELSE LET k == CHOOSE x \in keys : TRUE
         IN  state[k] + SumOver(state, keys \ {k})

Assigned(state) == SumOver(state, DOMAIN state)

\* the user sets one number input of a course in view to v; the model stops
\* at values of `limit` and at `cap` credits assigned in the whole session
SetSplit(limit, cap) ==
    /\ pc = "ready"
    /\ \E k \in RenderedKeys(filtered), v \in 0..limit :
          /\ session[k] # v
          /\ Assigned([session EXCEPT ![k] = v]) <= cap
          /\ \E r \in {Run(file, schoolPick, subjectPick, subject_options,
                          [session EXCEPT ![k] = v])} : Show(r)
    /\ UNCHANGED <<file, pc, schoolPick>>

EditSplit == SetSplit(MaxAssigned, MaxAssigned)

EditAnySplit == SetSplit(MaxSplit, Cardinality(InputNames) * MaxSplit)

(***************************************************************************)
(* Input sheets                                                            *)
(***************************************************************************)
SeqsUpTo(S, n) == UNION {[1..k -> S] : k \in 0..n}

Restrict(r, cols) == [col \in cols |-> r[col]]

Sheet(cols, rs) == [columns |-> cols, rows |-> [i \in 1..Len(rs) |-> Restrict(rs[i], cols)]]

BaseRow ==
    [CourseCode |-> << <<"A", "B", "1">> >>, CourseName |-> <<"Welding I">>,
     School |-> <<"Tech">>, TotalCredits |-> <<3>>, CurrentSeatTime |-> <<2400>>,
     TheoryCredits |-> <<1>>, LabCredits |-> <<1>>, InternshipCredits |-> <<1>>,
     ClinicalCredits |-> <<1>>, SubjectCode |-> << <<"Z", "Z">> >>]

\* the courses of the sessions: two schools (one of them named like the first
\* option of the selectbox), a course without school, code, credits or seat time
Catalog ==
    {BaseRow,
     [BaseRow EXCEPT !.CourseCode = << <<"N", "2">> >>, !.CourseName = <<"Nursing II">>,
                     !.School = <<"Show All">>, !.TotalCredits = <<1>>,
                     !.CurrentSeatTime = <<800>>],
     [BaseRow EXCEPT !.CourseCode = << >>, !.CourseName = <<"Seminar">>,
                     !.School = << >>, !.TotalCredits = << >>,
                     !.CurrentSeatTime = << >>]}

SessionSheets == {Sheet(AllColumns, rs) : rs \in SeqsUpTo(Catalog, MaxCourses)}

\* one course, every total and seat time
SeatTimes == {0, 800, 2400}

ReconcileSheets ==
    {Sheet(AllColumns, <<[BaseRow EXCEPT !.TotalCredits = <<t>>, !.CurrentSeatTime = <<m>>]>>) :
        t \in 0..MaxTotal, m \in SeatTimes}

\* one course, every course code; the sheet has a SubjectCode column or not
CodeChars == {"A", "B", "Z", "a", "1"}

CodeCells == {<< >>} \cup {<<code>> : code \in SeqsUpTo(CodeChars, MaxCodeLen)}

CodeSheets ==
    {Sheet(cols, <<[BaseRow EXCEPT !.CourseCode = cell]>>) :
        cols \in {AllColumns, AllColumns \ {"SubjectCode"}}, cell \in CodeCells}

\* every subset of the four credit columns in the sheet, every subset of their cells filled
CreditRows ==
    {[BaseRow EXCEPT !.TheoryCredits = t, !.LabCredits = l,
                     !.InternshipCredits = i, !.ClinicalCredits = c] :
        t \in {<< >>, <<2>>}, l \in {<< >>, <<1>>}, i \in {<< >>, <<1>>}, c \in {<< >>, <<3>>}}

CreditSheets ==
    {Sheet(AllColumns \ absent, rs) :
        absent \in SUBSET CreditColumns, rs \in SeqsUpTo(CreditRows, MaxLoadRows)}

LoadSheets == CodeSheets \cup CreditSheets

(***************************************************************************)
(* Specifications                                                          *)
(***************************************************************************)
InitWith(sheets) ==
    /\ file \in sheets
    /\ pc = "start"
    /\ df = << >>
    /\ schoolPick = << >>
    /\ subjectPick = << >>
    /\ school = ShowAllLabel
    /\ subject = ShowAllChars
    /\ subject_options = {}
    /\ session = << >>
    /\ filtered = << >>
    /\ shown = << >>
    /\ updated_rows = << >>
    /\ download = << >>
    /\ info = << >>

\* a session over a course table
Init == InitWith(SessionSheets)

Next == Startup \/ SelectSchool \/ SelectSubject \/ EditSplit

Spec == Init /\ [][Next]_vars

\* the reconciliation of one course, over every split
InitReconcile == InitWith(ReconcileSheets)

NextReconcile == Startup \/ EditAnySplit

SpecReconcile == InitReconcile /\ [][NextReconcile]_vars

\* the load of a sheet
InitLoad == InitWith(LoadSheets)

NextLoad == Startup

SpecLoad == InitLoad /\ [][NextLoad]_vars

(***************************************************************************)
(* Properties                                                              *)
(***************************************************************************)
Ready == pc = "ready"

View == 1..Len(filtered)

\* the value now in the number input `name` of the course with index label idx
Current(name, idx) ==
    IF <<name, idx>> \in DOMAIN session THEN session[<<name, idx>>] ELSE 0

CreditSum(idx) ==
    Current("theory", idx) + Current("lab", idx) +
    Current("intern", idx) + Current("clinical", idx)

Minutes(idx) ==
    800 * Current("theory", idx) + 1600 * Current("lab", idx) +
    2475 * Current("intern", idx) + 2400 * Current("clinical", idx)

\* the number a Change metric shows
Signed(m) == IF m[1] = "-" THEN 0 - m[2] ELSE m[2]

SplitIs(idx, t, l, i, c) ==
    /\ Current("theory", idx) = t
    /\ Current("lab", idx) = l
    /\ Current("intern", idx) = i
    /\ Current("clinical", idx) = c

\* C1: the new seat time shown and exported for a course is
\* 800*theory + 1600*lab + 2475*intern + 2400*clinical of its split, whatever
\* the course's total credits and current seat time.
C1_NewSeatTime ==
    Ready => \A i \in View :
        /\ shown[i].new = Minutes(filtered[i].idx)
        /\ updated_rows[i].NewSeatTime = Minutes(filtered[i].idx)

\* split (3,1,0,0) gives 4000
C1_Witness ==
    /\ Ready
    /\ Len(filtered) = 1
    /\ SplitIs(filtered[1].idx, 3, 1, 0, 0)
    /\ updated_rows[1].NewSeatTime = 4000

\* C2: the banner of a course is the error banner iff the sum of its split
\* exceeds its total credits, the warning banner iff the sum is below them and
\* the success banner iff they are equal; it is exactly one of the three.
C2_Verdict ==
    Ready => \A i \in View :
        LET sum == CreditSum(filtered[i].idx)
            total == filtered[i].row["TotalCredits"]
            kind == shown[i].banner.kind
        IN  /\ kind \in {"error", "warning", "success"}
            /\ kind = "error" <=> sum > total
            /\ kind = "warning" <=> sum < total
            /\ kind = "success" <=> sum = total

\* total credits 3, split (2,0,0,0): UNDER
C2_Witness ==
    /\ Ready
    /\ Len(filtered) = 1
    /\ filtered[1].row["TotalCredits"] = 3
    /\ SplitIs(filtered[1].idx, 2, 0, 0, 0)
    /\ shown[1].banner.kind = "warning"

\* C3: the Change metric and the SeatTimeDifference field are the new seat
\* time minus the course's current seat time, negative when the new one is
\* smaller.
C3_Difference ==
    Ready => \A i \in View :
        LET diff == Minutes(filtered[i].idx) - filtered[i].row["CurrentSeatTime"]
        IN  /\ Signed(shown[i].change) = diff
            /\ updated_rows[i].SeatTimeDifference = diff

\* current seat time 2400, split (2,0,0,0): -800
C3_Witness ==
    /\ Ready
    /\ Len(filtered) = 1
    /\ filtered[1].row["CurrentSeatTime"] = 2400
    /\ SplitIs(filtered[1].idx, 2, 0, 0, 0)
    /\ updated_rows[1].SeatTimeDifference = 0 - 800
    /\ shown[1].change = <<"-", 800>>

\* the course matches the options picked in the two selectboxes
Picked(e) ==
    /\ schoolPick = << >> \/ e.row["School"] = schoolPick
    /\ subjectPick = << >> \/ e.row["SubjectCode"] = subjectPick[1]

\* C4: the view is the courses of the picked school (when a school is picked)
\* and of the picked subject (when a subject is picked), in their order in
\* the table; empty when none matches.
C4_FilteredView == Ready => filtered = SelectSeq(df, Picked)

\* the labels to filter by: those of the table, "Show All", and one that matches nothing
SchoolLabels == SchoolOptions(df) \cup {ShowAllLabel, "Business"}

SubjectLabels == SubjectOptions(df) \cup {ShowAllChars, <<"Q">>}

\* C5: filtering by X the result of filtering by X gives the same courses, for
\* every school label and subject label, and for the labels now selected.
C5_Idempotent ==
    Ready =>
        /\ FilterCourses(filtered, school, subject) = filtered
        /\ \A sch \in SchoolLabels, sub \in SubjectLabels :
              FilterCourses(FilterCourses(df, sch, sub), sch, sub) = FilterCourses(df, sch, sub)

\* filtering twice by a school and a subject that keep one of two courses
C5_Witness ==
    /\ Ready
    /\ school # ShowAllLabel
    /\ subject # ShowAllChars
    /\ Len(df) = 2
    /\ Len(filtered) = 1

\* C6: the export has one row per course of the view, in view order, with
\* the course's identity fields, total credits, split, original and new seat
\* time and difference; it is offered whatever the banners are.
C6_ExportRows ==
    Ready =>
        /\ Len(updated_rows) = Len(filtered)
        /\ \A i \in View :
              LET row == filtered[i].row
                  idx == filtered[i].idx
                  out == updated_rows[i]
              IN  /\ out.CourseCode = row["CourseCode"]
                  /\ out.CourseName = row["CourseName"]
                  /\ out.School = row["School"]
                  /\ out.SubjectCode = row["SubjectCode"]
                  /\ out.TotalCredits = row["TotalCredits"]
                  /\ out.TheoryCredits = Current("theory", idx)
                  /\ out.LabCredits = Current("lab", idx)
                  /\ out.InternshipCredits = Current("intern", idx)
                  /\ out.ClinicalCredits = Current("clinical", idx)
                  /\ out.OriginalSeatTime = row["CurrentSeatTime"]
                  /\ out.NewSeatTime = Minutes(idx)
                  /\ out.SeatTimeDifference = Minutes(idx) - row["CurrentSeatTime"]
        /\ filtered # << >> =>
              /\ Len(download) = 1
              /\ download[1].rows = updated_rows
              /\ Len(download[1].rows) = Len(filtered)

\* an export of two courses, one in EXCEEDS and one in UNDER state
C6_Witness ==
    /\ Ready
    /\ Len(filtered) = 2
    /\ shown[1].banner.kind = "error"
    /\ shown[2].banner.kind = "warning"
    /\ Len(download) = 1
    /\ Len(download[1].rows) = 2

\* C7 as stated: with no course in the view the export is a table of zero rows.
C7_EmptyTable ==
    (Ready /\ filtered = << >>) =>
        /\ Len(download) = 1
        /\ download[1].rows = << >>

\* C7, amended: with no course in the view no output file is produced; the
\* script shows a notice instead, and does not fail.  A file is produced
\* exactly when the view has a course.
C7_NoFileWhenEmpty ==
    Ready =>
        /\ filtered = << >> => download = << >> /\ info = <<"No changes have been made yet.">>
        /\ filtered # << >> => download # << >> /\ info = << >>

C7_Witness == Ready /\ filtered = << >> /\ download = << >>

\* C8: a load never fails for an absent credit column or a missing credit
\* cell: the credit is 0 for that row and every course is loaded.
C8_LoadTolerant ==
    pc # "start" =>
        /\ Ready
        /\ Len(df) = Len(file.rows)
        /\ \A i \in 1..Len(file.rows), col \in CreditColumns :
              (col \notin file.columns \/ file.rows[i][col] = << >>) => df[i].row[col] = 0

\* C9: the subject code of a course is the longest leading run of letters
\* A-Z of its course code, "UNKNOWN" when that run is empty; a SubjectCode
\* of the sheet is not used.
C9_SubjectCode ==
    Ready => \A i \in 1..Len(df) :
        LET code == IF file.rows[i]["CourseCode"] = << >> THEN << >>
                    ELSE file.rows[i]["CourseCode"][1]
            sc == df[i].row["SubjectCode"]
        IN  /\ df[i].row["CourseCode"] = code
            /\ IF code # << >> /\ code[1] \in UpperCase
                  THEN \E n \in 1..Len(code) :
                          /\ sc = SubSeq(code, 1, n)
                          /\ \A j \in 1..n : code[j] \in UpperCase
                          /\ n = Len(code) \/ code[n + 1] \notin UpperCase
                  ELSE sc = UNKNOWN

\* course code "A1" in a sheet whose SubjectCode column says "ZZ"
C9_Witness ==
    /\ Ready
    /\ Len(df) = 1
    /\ "SubjectCode" \in file.columns
    /\ file.rows[1]["SubjectCode"] = << <<"Z", "Z">> >>
    /\ df[1].row["CourseCode"] = <<"A", "1">>
    /\ df[1].row["SubjectCode"] = <<"A">>

\* C10: what is shown and exported for a course of the view is computed from
\* its current split and its loaded total credits and seat time; an edit of
\* one course's split leaves the results of the others as they were; the
\* loaded table never changes.
Computed(i) ==
    LET idx == filtered[i].idx
        total == df[idx + 1].row["TotalCredits"]
        seat == df[idx + 1].row["CurrentSeatTime"]
    IN  /\ df[idx + 1].idx = idx
        /\ shown[i].idx = idx
        /\ shown[i].banner.adjusted = (IF CreditSum(idx) = total THEN total ELSE CreditSum(idx))
        /\ shown[i].banner.kind = (IF CreditSum(idx) > total THEN "error"
                                   ELSE IF CreditSum(idx) < total THEN "warning"
                                   ELSE "success")
        /\ shown[i].new = Minutes(idx)
        /\ Signed(shown[i].change) = Minutes(idx) - seat
        /\ updated_rows[i].TheoryCredits + updated_rows[i].LabCredits +
           updated_rows[i].InternshipCredits + updated_rows[i].ClinicalCredits = CreditSum(idx)
        /\ updated_rows[i].NewSeatTime = Minutes(idx)
        /\ updated_rows[i].SeatTimeDifference = Minutes(idx) - seat

SameSplit(idx) ==
    \A name \in InputNames :
        /\ <<name, idx>> \in DOMAIN session
        /\ <<name, idx>> \in DOMAIN session'
        /\ session'[<<name, idx>>] = session[<<name, idx>>]

OthersKept ==
    (Ready /\ schoolPick' = schoolPick /\ subjectPick' = subjectPick) =>
        \A i \in View :
            SameSplit(filtered[i].idx) =>
                /\ i \in 1..Len(filtered')
                /\ shown'[i] = shown[i]
                /\ updated_rows'[i] = updated_rows[i]

TableKept == Ready => (df' = df /\ file' = file)

C10_Recomputed ==
    /\ [](Ready => \A i \in View : Computed(i))
    /\ [][OthersKept /\ TableKept]_vars

\* two courses in a filtered view, the second edited and the first not
C10_Witness ==
    /\ Ready
    /\ subjectPick # << >>
    /\ Len(filtered) = 2
    /\ SplitIs(filtered[1].idx, 0, 0, 0, 0)
    /\ CreditSum(filtered[2].idx) > 0
    /\ shown[1].new = 0
    /\ shown[2].new > 0

====
